---- MODULE Spec2Model ----
(***************************************************************************)
(* A model of the push-based stream library of src/stream.go.              *)
(*                                                                         *)
(* A pipeline is a wiring `net` of nodes: producers (Periodic, From,       *)
(* Accept, FromListener), operators (Take, Merge, Flatten) and the         *)
(* terminal Observer.  Every goroutine (the activating context, another    *)
(* caller, the background loop of each Periodic activation) is a thread    *)
(* with a call stack of frames, and every step of a function of the source *)
(* is one action on the top frame of one thread.  A call pushes a frame, a *)
(* return pops it and leaves the result in ret[thread].                    *)
(***************************************************************************)
EXTENDS Integers, Sequences, FiniteSets, TLC

VARIABLES
    net,     \* the wiring: net[n] describes node n (fixed after Init)
    st,      \* st[n]: the per-activation state of node n (the closure's captured variables)
    stack,   \* stack[t]: the call stack of thread t, top frame last
    ret,     \* ret[t]: the result of the last call that returned in thread t: .ok a Next's or
             \* accept's bool, .sub the Subscription an activation returned (0: none)
    sub,     \* the Subscription the activating context obtained (0: none yet)
    ops,     \* ops[t]: how many operations driver thread t has started
    trace    \* history: the calls observed at the observers and at the callers

vars == <<net, st, stack, ret, sub, ops, trace>>

(* Bounds *)
MaxTicks == 2      \* ticks a ticker delivers
MaxOps == 2        \* operations (cancel, push, emit) each driver thread starts
MaxSources == 2    \* sources of a Merge
MergeTicks == 1    \* ticks of a Periodic source of a Merge
MergeOps == 1      \* calls of the Subscription of a Merge
MaxTake == 2       \* the n of Take(n)
MaxLen == 2        \* length of the sequence of From
TakeTicks == 2     \* ticks of a Periodic source under Take
TakeOps == 2       \* operations of the caller of a Take pipeline
MaxInner == 2      \* inner streams the outer source of a Flatten delivers
FlattenTicks == 1  \* ticks of a Periodic inner stream of a Flatten
FlattenOps == 1    \* calls of the Subscription of a Flatten
PushOps == 2       \* pushes, emits and cancels of the subscriber of an Accept or FromListener
PushAuxOps == 1    \* pushes, emits and cancels of a second goroutine
FairTicks == 1     \* ticks of the ticker under the fair scheduler
FairOps == 1       \* calls of the Subscription by each caller under the fair scheduler
MaxFold == 2       \* length of the sequence From delivers to Reduce or StartWith
MaxValue == 2      \* the values of that sequence are 1..MaxValue
MaxStart == 1      \* the initial value of Reduce, the value of StartWith: 0..MaxStart
AcceptCancels == 1 \* calls of the Subscription of an Accept stream by its subscriber
AcceptPushes == 1  \* calls of the push-function by a second goroutine
FromLen == 3       \* length of the sequence of a From subscribed directly
FromOps == 1       \* calls of the Subscription of From
AgainOps == 3      \* pushes and cancels of the subscribers of an Accept stream activated twice
FoldOps == 2       \* pushes, emits and cancels of the subscriber of a Reduce or StartWith

(***************************************************************************)
(* Threads                                                                 *)
(***************************************************************************)
MainT == <<"main", 0>>
AuxT == <<"aux", 0>>
LoopT(p) == <<"loop", p>>

Nodes == DOMAIN net
Kind(n) == net[n].kind
PeriodicNodes == {n \in Nodes : Kind(n) = "Periodic"}
Drivers == {MainT, AuxT}
Threads == Drivers \cup {LoopT(p) : p \in PeriodicNodes}

(***************************************************************************)
(* Frames and the stack discipline                                         *)
(***************************************************************************)
Frame(proc, pc, self, data) ==
    [proc |-> proc, pc |-> pc, self |-> self, data |-> data, idx |-> 1, from |-> 0]

Top(t) == stack[t][Len(stack[t])]

At(t, kind, proc, pc) ==
    /\ stack[t] # <<>>
    /\ Top(t).proc = proc
    /\ Top(t).pc = pc
    /\ Kind(Top(t).self) = kind

AtPort(t, kind, proc, pc, port) == At(t, kind, proc, pc) /\ Top(t).idx = port

WithPc(s, pc) == [s EXCEPT ![Len(s)].pc = pc]
Pop(s) == SubSeq(s, 1, Len(s) - 1)

\* the stacks after thread t moves its top frame to pc
Moved(t, pc) == [stack EXCEPT ![t] = WithPc(@, pc)]
\* the stacks after thread t calls frame f, to continue at pc when f returns
Called(t, pc, f) == [stack EXCEPT ![t] = Append(WithPc(@, pc), f)]
\* the stacks after the top frame of thread t returns
Returned(t) == [stack EXCEPT ![t] = Pop(@)]

(***************************************************************************)
(* Scheduling.  A step that reads and writes nothing but its own thread's  *)
(* frame and result (a call, a return, a branch on a local) commutes with  *)
(* every step of every other thread, so the threads are interleaved only   *)
(* at the steps that touch shared state: a thread that stands before a     *)
(* local step takes it before any other thread moves.                      *)
(***************************************************************************)
LocalPoints ==
    { <<"Periodic", "loop", "next">>, <<"Periodic", "loop", "ok">>, <<"Periodic", "loop", "inc">>,
      <<"Periodic", "unsub", "complete">>,
      <<"From", "activate", "start">>, <<"From", "activate", "chk">>,
      <<"From", "activate", "complete">>, <<"From", "activate", "ret">>,
      <<"From", "unsub", "start">>,
      <<"Take", "activate", "ret">>, <<"Take", "next", "start">>,
      <<"Merge", "activate", "ret">>, <<"Merge", "complete", "ret">>,
      <<"Accept", "push", "ret">>, <<"Accept", "unsub", "complete">>,
      <<"Listener", "emit", "ret">>, <<"Listener", "unsub", "complete">>,
      <<"Listener", "unsub", "ret">>,
      <<"Map", "activate", "start">>, <<"Map", "activate", "ret">>,
      <<"Flatten", "next", "ret">>, <<"Flatten", "complete", "ret">>,
      <<"Flatten", "unsub", "start">>, <<"Flatten", "unsub", "ret">>,
      <<"Terminal", "driver", "start">> }

IsLocal(t) ==
    /\ stack[t] # <<>>
    /\ <<Kind(Top(t).self), Top(t).proc, Top(t).pc>> \in LocalPoints

\* no thread stands before a local step
Quiet == \A u \in DOMAIN stack : ~IsLocal(u)

Sched(t) ==
    LET L == {u \in DOMAIN stack : IsLocal(u)}
    IN  IF L = {} THEN TRUE ELSE t = CHOOSE u \in L : TRUE

Event(ev, who, val, ok) == [ev |-> ev, who |-> who, val |-> val, ok |-> ok]

(***************************************************************************)
(* Observers.  An observer is the pair of a node and one of its ports; a   *)
(* producer's observer is net[n].down at port net[n].port.                 *)
(***************************************************************************)
Down(n) == net[n].down

\* Map: the function f of a Map node, given by the table net[m].args (the
\* value x is mapped to the stream args[x + n])
MapF(m, x) == net[m].args[x + net[m].n]

\* the ports of a Flatten node: the observer it hands to the outer source and
\* the one it hands to every inner stream
OuterPort == 1
InnerPort == 2

\* observer.Complete != nil, for the observer handed to node n
RECURSIVE ObsHasComplete(_)
ObsHasComplete(o) ==
    CASE Kind(o) = "Terminal" -> net[o].hc
      [] Kind(o) \in {"Take", "Map", "Reduce", "StartWith"} -> ObsHasComplete(Down(o))
      [] OTHER -> TRUE

HasComplete(n) == ObsHasComplete(Down(n))

\* the frame that runs observer.Next(data) of node n's observer
RECURSIVE ObsNextFrame(_, _, _, _)
ObsNextFrame(o, port, from, data) ==
    CASE Kind(o) \in {"Merge", "StartWith"} -> ObsNextFrame(Down(o), net[o].port, o, data)
      [] Kind(o) = "Map" -> ObsNextFrame(Down(o), net[o].port, o, MapF(o, data))
      [] OTHER -> [Frame("next", "start", o, data) EXCEPT !.from = from, !.idx = port]

NextFrame(n, data) == ObsNextFrame(Down(n), net[n].port, n, data)

\* the frame that runs observer.Complete() of node n's observer
RECURSIVE ObsCompleteFrame(_, _, _)
ObsCompleteFrame(o, port, from) ==
    CASE Kind(o) \in {"Take", "Map", "Reduce", "StartWith"} ->
             ObsCompleteFrame(Down(o), net[o].port, o)
      [] OTHER -> [Frame("complete", "start", o, 0) EXCEPT !.from = from, !.idx = port]

CompleteFrame(n) == ObsCompleteFrame(Down(n), net[n].port, n)

ActivateFrame(n) == Frame("activate", "start", n, 0)
UnsubFrame(s) == Frame("unsub", "start", s, 0)

(***************************************************************************)
(* The terminal Observer (Subscribe, Observe, ForEach): its Next records   *)
(* the value and answers true or false, its Complete records the call.     *)
(***************************************************************************)
TerminalNext(t) ==
    /\ At(t, "Terminal", "next", "start")
    /\ \E ok \in BOOLEAN :
        /\ trace' = Append(trace, Event("next", Top(t).self, Top(t).data, ok))
        /\ ret' = [ret EXCEPT ![t] = [ok |-> ok, sub |-> 0]]
    /\ stack' = Returned(t)
    /\ UNCHANGED <<net, st, sub, ops>>

TerminalComplete(t) ==
    /\ At(t, "Terminal", "complete", "start")
    /\ trace' = Append(trace, Event("complete", Top(t).self, 0, TRUE))
    /\ stack' = Returned(t)
    /\ UNCHANGED <<net, st, ret, sub, ops>>

(***************************************************************************)
(* Periodic (src/stream.go:20-52)                                          *)
(***************************************************************************)
PeriodicInit ==
    [i |-> 0, ticker |-> "none", tickerC |-> 0, ticks |-> 0,
     closeCh |-> "idle", done |-> FALSE]

\* the activation: the ticker is created, the loop goroutine is started and
\* unsub is returned
PeriodicActivate(t) ==
    /\ At(t, "Periodic", "activate", "start")
    /\ LET p == Top(t).self IN
        /\ st' = [st EXCEPT ![p] = [PeriodicInit EXCEPT !.ticker = "running"]]
        /\ stack' = [Returned(t) EXCEPT ![LoopT(p)] = <<Frame("loop", "select", p, 0)>>]
        /\ ret' = [ret EXCEPT ![t] = [ok |-> TRUE, sub |-> p]]
    /\ UNCHANGED <<net, sub, ops, trace>>

\* the runtime's timer sends a tick on ticker.C (capacity 1; a tick that finds
\* the channel full is dropped)
Tick(p) ==
    /\ Kind(p) = "Periodic"
    /\ st[p].ticker = "running"
    /\ st[p].tickerC = 0
    /\ st[p].ticks < net[p].n
    /\ st' = [st EXCEPT ![p].tickerC = 1, ![p].ticks = @ + 1]
    /\ UNCHANGED <<net, stack, ret, sub, ops, trace>>

\* select: case <-done: return
LoopDone(t) ==
    /\ At(t, "Periodic", "loop", "select")
    /\ st[Top(t).self].done
    /\ stack' = [stack EXCEPT ![t] = <<>>]
    /\ UNCHANGED <<net, st, ret, sub, ops, trace>>

\* select: case <-ticker.C (select picks any ready case)
LoopTick(t) ==
    /\ At(t, "Periodic", "loop", "select")
    /\ st[Top(t).self].tickerC > 0
    /\ st' = [st EXCEPT ![Top(t).self].tickerC = 0]
    /\ stack' = Moved(t, "next")
    /\ UNCHANGED <<net, ret, sub, ops, trace>>

\* ok := observer.Next(i)
LoopNext(t) ==
    /\ At(t, "Periodic", "loop", "next")
    /\ stack' = Called(t, "ok", NextFrame(Top(t).self, st[Top(t).self].i))
    /\ UNCHANGED <<net, st, ret, sub, ops, trace>>

\* if !ok { unsub() }
LoopOk(t) ==
    /\ At(t, "Periodic", "loop", "ok")
    /\ stack' = IF ret[t].ok THEN Moved(t, "inc")
                ELSE Called(t, "inc", UnsubFrame(Top(t).self))
    /\ UNCHANGED <<net, st, ret, sub, ops, trace>>

\* i++
LoopInc(t) ==
    /\ At(t, "Periodic", "loop", "inc")
    /\ st' = [st EXCEPT ![Top(t).self].i = @ + 1]
    /\ stack' = Moved(t, "select")
    /\ UNCHANGED <<net, ret, sub, ops, trace>>

\* (mutant) a guard that lets Do run the function again once it has returned
OnceNotRunning(p) == st[p].closeCh # "running"

\* sync.Once: the first caller of Do runs the function
OnceFree(p) == st[p].closeCh = "idle"
\* sync.Once: Do returns at once when the function has been run; a caller
\* that finds it running waits until it has returned
OncePast(p) == st[p].closeCh = "done"

\* closeCh.Do(func() {...})
UnsubDo(t) ==
    /\ At(t, "Periodic", "unsub", "start")
    /\ LET p == Top(t).self IN
        \/ /\ OnceFree(p)
           /\ st' = [st EXCEPT ![p].closeCh = "running"]
           /\ stack' = Moved(t, "stop")
           /\ UNCHANGED trace
        \/ /\ ~OnceFree(p)
           /\ OncePast(p)
           /\ stack' = Returned(t)
           /\ trace' = IF t[1] = "loop" THEN Append(trace, Event("stopRet", t, 0, TRUE))
                       ELSE trace
           /\ UNCHANGED st
    /\ UNCHANGED <<net, ret, sub, ops>>

\* ticker.Stop(): no more ticks are sent; a tick already in the channel is
\* left there or not, depending on the runtime's timer channels
UnsubStop(t) ==
    /\ At(t, "Periodic", "unsub", "stop")
    /\ \E c \in {0, st[Top(t).self].tickerC} :
        st' = [st EXCEPT ![Top(t).self].ticker = "stopped", ![Top(t).self].tickerC = c]
    /\ stack' = Moved(t, "close")
    /\ UNCHANGED <<net, ret, sub, ops, trace>>

\* (mutant) an unsub that does not close done
UnsubSkipClose(t) ==
    /\ At(t, "Periodic", "unsub", "close")
    /\ stack' = Moved(t, "complete")
    /\ UNCHANGED <<net, st, ret, sub, ops, trace>>

\* close(done)
UnsubClose(t) ==
    /\ At(t, "Periodic", "unsub", "close")
    /\ st' = [st EXCEPT ![Top(t).self].done = TRUE]
    /\ stack' = Moved(t, "complete")
    /\ UNCHANGED <<net, ret, sub, ops, trace>>

\* if observer.Complete != nil { observer.Complete() }
UnsubComplete(t) ==
    /\ At(t, "Periodic", "unsub", "complete")
    /\ stack' = IF HasComplete(Top(t).self)
                THEN Called(t, "unlock", CompleteFrame(Top(t).self))
                ELSE Moved(t, "unlock")
    /\ UNCHANGED <<net, st, ret, sub, ops, trace>>

\* the function passed to Do returns: the Once is done and Do returns
UnsubUnlock(t) ==
    /\ At(t, "Periodic", "unsub", "unlock")
    /\ st' = [st EXCEPT ![Top(t).self].closeCh = "done"]
    /\ stack' = Returned(t)
    /\ trace' = IF t[1] = "loop" THEN Append(trace, Event("stopRet", t, 0, TRUE))
                ELSE trace
    /\ UNCHANGED <<net, ret, sub, ops>>

(***************************************************************************)
(* From (src/stream.go:54-67): replays args on the activating thread.      *)
(* The frame's idx is the position of the range loop.                      *)
(***************************************************************************)
\* for _, v := range args { if !observer.Next(v) ...
FromLoop(t) ==
    /\ At(t, "From", "activate", "start")
    /\ LET f == Top(t).self IN
        stack' = IF Top(t).idx <= Len(net[f].args)
                 THEN Called(t, "chk", NextFrame(f, net[f].args[Top(t).idx]))
                 ELSE Moved(t, "complete")
    /\ UNCHANGED <<net, st, ret, sub, ops, trace>>

\* (mutant) a loop that goes on after Next has answered false
FromChkNoBreak(t) ==
    /\ At(t, "From", "activate", "chk")
    /\ stack' = [stack EXCEPT ![t] = [@ EXCEPT ![Len(@)].pc = "start", ![Len(@)].idx = @ + 1]]
    /\ UNCHANGED <<net, st, ret, sub, ops, trace>>

\* ... { break } }
FromChk(t) ==
    /\ At(t, "From", "activate", "chk")
    /\ stack' = IF ret[t].ok
                THEN [stack EXCEPT ![t] = [@ EXCEPT ![Len(@)].pc = "start", ![Len(@)].idx = @ + 1]]
                ELSE Moved(t, "complete")
    /\ UNCHANGED <<net, st, ret, sub, ops, trace>>

\* if observer.Complete != nil { observer.Complete() }
FromComplete(t) ==
    /\ At(t, "From", "activate", "complete")
    /\ stack' = IF HasComplete(Top(t).self)
                THEN Called(t, "ret", CompleteFrame(Top(t).self))
                ELSE Moved(t, "ret")
    /\ UNCHANGED <<net, st, ret, sub, ops, trace>>

\* return func() {}
FromReturn(t) ==
    /\ At(t, "From", "activate", "ret")
    /\ ret' = [ret EXCEPT ![t] = [ok |-> TRUE, sub |-> Top(t).self]]
    /\ stack' = Returned(t)
    /\ UNCHANGED <<net, st, sub, ops, trace>>

\* the Subscription of From: func() {}
FromUnsub(t) ==
    /\ At(t, "From", "unsub", "start")
    /\ stack' = Returned(t)
    /\ UNCHANGED <<net, st, ret, sub, ops, trace>>

(***************************************************************************)
(* Take (src/stream.go:185-203)                                            *)
(***************************************************************************)
TakeInit == [i |-> 0]

\* i := 0; return source(Observer[T]{...})
TakeActivate(t) ==
    /\ At(t, "Take", "activate", "start")
    /\ st' = [st EXCEPT ![Top(t).self] = TakeInit]
    /\ stack' = Called(t, "ret", ActivateFrame(net[Top(t).self].srcs[1]))
    /\ UNCHANGED <<net, ret, sub, ops, trace>>

\* the Subscription of the source is returned as it is
TakeReturn(t) ==
    /\ At(t, "Take", "activate", "ret")
    /\ stack' = Returned(t)
    /\ UNCHANGED <<net, st, ret, sub, ops, trace>>

\* Next: ok := observer.Next(data)
TakeNext(t) ==
    /\ At(t, "Take", "next", "start")
    /\ stack' = Called(t, "after", NextFrame(Top(t).self, Top(t).data))
    /\ UNCHANGED <<net, st, ret, sub, ops, trace>>

\* the answer of Take's Next once i has been incremented to i1
TakeAnswer(ok, i1, n) == IF ~ok \/ i1 = n THEN FALSE ELSE ok

\* Next: i++; if !ok || i == n { return false }; return ok
TakeAfter(t) ==
    /\ At(t, "Take", "next", "after")
    /\ LET k == Top(t).self IN
        /\ st' = [st EXCEPT ![k].i = @ + 1]
        /\ ret' = [ret EXCEPT ![t] = [ok |-> TakeAnswer(ret[t].ok, st[k].i + 1, net[k].n), sub |-> 0]]
        /\ trace' = Append(trace, Event("takeRet", k, Top(t).data,
                                        TakeAnswer(ret[t].ok, st[k].i + 1, net[k].n)))
    /\ stack' = Returned(t)
    /\ UNCHANGED <<net, sub, ops>>

(***************************************************************************)
(* Merge (src/stream.go:205-231)                                           *)
(***************************************************************************)
MergeInit(k) == [unsubscribes |-> [j \in 1..k |-> 0], numCompleted |-> 0]

\* unsubscribes := make([]Subscription, len(streams)); numCompleted := 0;
\* for i, stream := range streams { ... stream(Observer[T]{...})
MergeActivate(t) ==
    /\ At(t, "Merge", "activate", "start")
    /\ LET m == Top(t).self IN
        /\ st' = IF Top(t).idx = 1 THEN [st EXCEPT ![m] = MergeInit(Len(net[m].srcs))] ELSE st
        /\ stack' = IF Top(t).idx <= Len(net[m].srcs)
                    THEN Called(t, "store", ActivateFrame(net[m].srcs[Top(t).idx]))
                    ELSE Moved(t, "ret")
    /\ UNCHANGED <<net, ret, sub, ops, trace>>

\* unsubscribes[i] = ...
MergeStore(t) ==
    /\ At(t, "Merge", "activate", "store")
    /\ st' = [st EXCEPT ![Top(t).self].unsubscribes[Top(t).idx] = ret[t].sub]
    /\ stack' = [stack EXCEPT ![t] = [@ EXCEPT ![Len(@)].pc = "start", ![Len(@)].idx = @ + 1]]
    /\ UNCHANGED <<net, ret, sub, ops, trace>>

\* return func() {...}
MergeReturn(t) ==
    /\ At(t, "Merge", "activate", "ret")
    /\ ret' = [ret EXCEPT ![t] = [ok |-> TRUE, sub |-> Top(t).self]]
    /\ stack' = Returned(t)
    /\ UNCHANGED <<net, st, sub, ops, trace>>

\* Complete: numCompleted++ is a read ...
MergeLoad(t) ==
    /\ At(t, "Merge", "complete", "start")
    /\ stack' = [stack EXCEPT ![t] =
                   [@ EXCEPT ![Len(@)].pc = "store", ![Len(@)].data = st[Top(t).self].numCompleted]]
    /\ trace' = Append(trace, Event("srcComplete", Top(t).self, Top(t).from, TRUE))
    /\ UNCHANGED <<net, st, ret, sub, ops>>

\* the value numCompleted++ writes, having read v
Incremented(v) == v + 1

\* ... and a write of the shared counter, with no synchronisation
MergeStoreCount(t) ==
    /\ At(t, "Merge", "complete", "store")
    /\ st' = [st EXCEPT ![Top(t).self].numCompleted = Incremented(Top(t).data)]
    /\ stack' = [stack EXCEPT ![t] =
                   [@ EXCEPT ![Len(@)].pc = "check", ![Len(@)].data = Incremented(Top(t).data)]]
    /\ UNCHANGED <<net, ret, sub, ops, trace>>

\* the barrier: numCompleted == len(streams)
MergeBarrier(v, k) == v = k

\* Complete: if numCompleted == len(streams) { if observer.Complete != nil {
\* observer.Complete() } }.  The counter is read again without synchronisation:
\* the read yields the value this goroutine wrote or the one now in memory.
MergeCheck(t) ==
    /\ At(t, "Merge", "complete", "check")
    /\ LET m == Top(t).self IN
        \E v \in {Top(t).data, st[m].numCompleted} :
            stack' = IF MergeBarrier(v, Len(net[m].srcs)) /\ HasComplete(m)
                     THEN Called(t, "ret", CompleteFrame(m))
                     ELSE Returned(t)
    /\ UNCHANGED <<net, st, ret, sub, ops, trace>>

MergeCompleteReturn(t) ==
    /\ At(t, "Merge", "complete", "ret")
    /\ stack' = Returned(t)
    /\ UNCHANGED <<net, st, ret, sub, ops, trace>>

\* the Subscription: for _, unsub := range unsubscribes { unsub() }
MergeUnsub(t) ==
    /\ At(t, "Merge", "unsub", "start")
    /\ LET m == Top(t).self IN
        stack' = IF Top(t).idx <= Len(net[m].srcs)
                 THEN [stack EXCEPT ![t] =
                         Append([@ EXCEPT ![Len(@)].idx = @ + 1],
                                UnsubFrame(st[m].unsubscribes[Top(t).idx]))]
                 ELSE Returned(t)
    /\ UNCHANGED <<net, st, ret, sub, ops, trace>>

(***************************************************************************)
(* Accept (src/stream.go:70-91).  The variable obs belongs to the Accept   *)
(* call, not to an activation: the activations of one Accept stream share  *)
(* it.  obs = 0 is nil, obs = a points to the observer of activation a.    *)
(***************************************************************************)
AcceptInit == [obs |-> 0]

\* the Accept call whose stream node a activates
Cell(a) == IF net[a].args = <<>> THEN a ELSE net[a].args[1]

\* s: obs = &observer; return func() {...}
AcceptActivate(t) ==
    /\ At(t, "Accept", "activate", "start")
    /\ st' = [st EXCEPT ![Cell(Top(t).self)].obs = Top(t).self]
    /\ ret' = [ret EXCEPT ![t] = [ok |-> TRUE, sub |-> Top(t).self]]
    /\ stack' = Returned(t)
    /\ trace' = Append(trace, Event("register", t, Top(t).self, TRUE))
    /\ UNCHANGED <<net, sub, ops>>

\* accept: if obs == nil { return false }.  The frame keeps the pointer read.
AcceptCheck(t) ==
    /\ At(t, "Accept", "push", "start")
    /\ LET o == st[Top(t).self].obs IN
        IF o = 0
        THEN /\ ret' = [ret EXCEPT ![t] = [ok |-> FALSE, sub |-> 0]]
             /\ stack' = Returned(t)
        ELSE /\ stack' = [stack EXCEPT ![t] = [@ EXCEPT ![Len(@)].pc = "call", ![Len(@)].idx = o]]
             /\ UNCHANGED ret
    /\ UNCHANGED <<net, st, sub, ops, trace>>

\* accept: return obs.Next(t).  obs is read again with no synchronisation: the
\* read yields the pointer the check saw or the one now in memory, and the
\* call through a nil pointer panics.
AcceptCall(t) ==
    /\ At(t, "Accept", "push", "call")
    /\ \E o \in {Top(t).idx, st[Top(t).self].obs} :
        IF o = 0
        THEN /\ stack' = [stack EXCEPT ![t] = <<>>]
             /\ trace' = Append(trace, Event("panic", t, 0, FALSE))
        ELSE /\ stack' = Called(t, "ret", NextFrame(o, Top(t).data))
             /\ trace' = Append(trace, Event("pushNext", t, Top(t).data, TRUE))
    /\ UNCHANGED <<net, st, ret, sub, ops>>

AcceptReturn(t) ==
    /\ At(t, "Accept", "push", "ret")
    /\ stack' = Returned(t)
    /\ UNCHANGED <<net, st, ret, sub, ops, trace>>

\* the Subscription: obs = nil
AcceptUnsub(t) ==
    /\ At(t, "Accept", "unsub", "start")
    /\ st' = [st EXCEPT ![Cell(Top(t).self)].obs = 0]
    /\ stack' = Moved(t, "complete")
    /\ trace' = Append(trace, Event("unregister", t, Top(t).self, TRUE))
    /\ UNCHANGED <<net, ret, sub, ops>>

\* (mutant) a Subscription that does not call observer.Complete
AcceptUnsubNoComplete(t) ==
    /\ At(t, "Accept", "unsub", "complete")
    /\ stack' = Moved(t, "completed")
    /\ UNCHANGED <<net, st, ret, sub, ops, trace>>

\* the Subscription: if observer.Complete != nil { observer.Complete() }
AcceptUnsubComplete(t) ==
    /\ At(t, "Accept", "unsub", "complete")
    /\ stack' = IF HasComplete(Top(t).self)
                THEN Called(t, "completed", CompleteFrame(Top(t).self))
                ELSE Moved(t, "completed")
    /\ UNCHANGED <<net, st, ret, sub, ops, trace>>

\* the Subscription: if completed != nil { completed() }
AcceptUnsubCompleted(t) ==
    /\ At(t, "Accept", "unsub", "completed")
    /\ trace' = IF net[Cell(Top(t).self)].hc
                THEN Append(trace, Event("completed", Top(t).self, 0, TRUE))
                ELSE trace
    /\ stack' = Returned(t)
    /\ UNCHANGED <<net, st, ret, sub, ops>>

(***************************************************************************)
(* FromListener (src/stream.go:93-111) over the Listenable of the tests    *)
(* (src/stream_test.go:156-172): listener = 0 is nil.                      *)
(***************************************************************************)
ListenerInit == [listener |-> 0]

\* listener.Listen(func(e T) { observer.Next(e) }); return func() {...}
ListenerActivate(t) ==
    /\ At(t, "Listener", "activate", "start")
    /\ st' = [st EXCEPT ![Top(t).self].listener = Top(t).self]
    /\ ret' = [ret EXCEPT ![t] = [ok |-> TRUE, sub |-> Top(t).self]]
    /\ stack' = Returned(t)
    /\ UNCHANGED <<net, sub, ops, trace>>

\* Listenable.Accept: if l.listener != nil { l.listener(t) }, and the
\* registered callback: observer.Next(e)
ListenerEmit(t) ==
    /\ At(t, "Listener", "emit", "start")
    /\ stack' = IF st[Top(t).self].listener # 0
                THEN Called(t, "ret", NextFrame(st[Top(t).self].listener, Top(t).data))
                ELSE Returned(t)
    /\ UNCHANGED <<net, st, ret, sub, ops, trace>>

\* the result of Next is dropped
ListenerEmitReturn(t) ==
    /\ At(t, "Listener", "emit", "ret")
    /\ stack' = Returned(t)
    /\ UNCHANGED <<net, st, ret, sub, ops, trace>>

\* the Subscription: listener.Close()
ListenerUnsub(t) ==
    /\ At(t, "Listener", "unsub", "start")
    /\ st' = [st EXCEPT ![Top(t).self].listener = 0]
    /\ trace' = Append(trace, Event("close", Top(t).self, 0, TRUE))
    /\ stack' = Moved(t, "complete")
    /\ UNCHANGED <<net, ret, sub, ops>>

\* the Subscription: if observer.Complete != nil { observer.Complete() }
ListenerUnsubComplete(t) ==
    /\ At(t, "Listener", "unsub", "complete")
    /\ stack' = IF HasComplete(Top(t).self)
                THEN Called(t, "ret", CompleteFrame(Top(t).self))
                ELSE Returned(t)
    /\ UNCHANGED <<net, st, ret, sub, ops, trace>>

ListenerUnsubReturn(t) ==
    /\ At(t, "Listener", "unsub", "ret")
    /\ stack' = Returned(t)
    /\ UNCHANGED <<net, st, ret, sub, ops, trace>>

(***************************************************************************)
(* Map (src/stream.go:154-166): Next and Complete go straight to the       *)
(* downstream observer (see ObsNextFrame); the activation activates the    *)
(* source.                                                                 *)
(***************************************************************************)
MapActivate(t) ==
    /\ At(t, "Map", "activate", "start")
    /\ stack' = Called(t, "ret", ActivateFrame(net[Top(t).self].srcs[1]))
    /\ UNCHANGED <<net, st, ret, sub, ops, trace>>

MapReturn(t) ==
    /\ At(t, "Map", "activate", "ret")
    /\ stack' = Returned(t)
    /\ UNCHANGED <<net, st, ret, sub, ops, trace>>

(***************************************************************************)
(* Reduce (src/stream.go:233-251).  net[r].n is initialValue and           *)
(* net[r].args[1] names the function f.                                    *)
(***************************************************************************)
\* the functions f the model folds with
Fold(fn, acc, v) ==
    CASE fn = "add" -> acc + v
      [] fn = "sub" -> acc - v
      [] fn = "last" -> v
      [] OTHER -> acc

ReduceInit(a) == [current |-> a]

\* (mutant) an accumulator that forgets what it has folded so far
StartOver(r, data) == Fold(net[r].args[1], net[r].n, data)

\* Next: current = f(current, data)
Accumulate(r, data) == Fold(net[r].args[1], st[r].current, data)

\* (mutant) a test that never sees the downstream reject the first value
NeverRejected(ok) == FALSE

\* if !ok
Rejected(ok) == ~ok

\* current := initialValue; ok := observer.Next(current)
ReduceActivate(t) ==
    /\ At(t, "Reduce", "activate", "start")
    /\ LET r == Top(t).self IN
        /\ st' = [st EXCEPT ![r] = ReduceInit(net[r].n)]
        /\ stack' = Called(t, "chk", NextFrame(r, net[r].n))
    /\ UNCHANGED <<net, ret, sub, ops, trace>>

\* if !ok { return func() {} }; return source(Observer[T]{...})
ReduceChk(t) ==
    /\ At(t, "Reduce", "activate", "chk")
    /\ LET r == Top(t).self IN
        IF Rejected(ret[t].ok)
        THEN /\ ret' = [ret EXCEPT ![t] = [ok |-> TRUE, sub |-> r]]
             /\ stack' = Returned(t)
             /\ UNCHANGED trace
        ELSE /\ stack' = Called(t, "ret", ActivateFrame(net[r].srcs[1]))
             /\ trace' = Append(trace, Event("srcActivate", r, net[r].srcs[1], TRUE))
             /\ UNCHANGED ret
    /\ UNCHANGED <<net, st, sub, ops>>

\* the Subscription of the source is returned as it is
ReduceReturn(t) ==
    /\ At(t, "Reduce", "activate", "ret")
    /\ stack' = Returned(t)
    /\ UNCHANGED <<net, st, ret, sub, ops, trace>>

\* Next: current = f(current, data); return observer.Next(current)
ReduceNext(t) ==
    /\ At(t, "Reduce", "next", "start")
    /\ LET r == Top(t).self IN
        /\ st' = [st EXCEPT ![r].current = Accumulate(r, Top(t).data)]
        /\ stack' = Called(t, "ret", NextFrame(r, Accumulate(r, Top(t).data)))
    /\ UNCHANGED <<net, ret, sub, ops, trace>>

ReduceNextReturn(t) ==
    /\ At(t, "Reduce", "next", "ret")
    /\ stack' = Returned(t)
    /\ UNCHANGED <<net, st, ret, sub, ops, trace>>

\* the Subscription returned when the first value was rejected: func() {}
ReduceUnsub(t) ==
    /\ At(t, "Reduce", "unsub", "start")
    /\ stack' = Returned(t)
    /\ UNCHANGED <<net, st, ret, sub, ops, trace>>

(***************************************************************************)
(* StartWith (src/stream.go:253-263).  net[s].n is data; the source is     *)
(* handed the downstream observer itself (see ObsNextFrame).               *)
(***************************************************************************)
\* ok := observer.Next(data)
StartWithActivate(t) ==
    /\ At(t, "StartWith", "activate", "start")
    /\ stack' = Called(t, "chk", NextFrame(Top(t).self, net[Top(t).self].n))
    /\ UNCHANGED <<net, st, ret, sub, ops, trace>>

\* if !ok { return func() {} }; return source(observer)
StartWithChk(t) ==
    /\ At(t, "StartWith", "activate", "chk")
    /\ LET w == Top(t).self IN
        IF Rejected(ret[t].ok)
        THEN /\ ret' = [ret EXCEPT ![t] = [ok |-> TRUE, sub |-> w]]
             /\ stack' = Returned(t)
             /\ UNCHANGED trace
        ELSE /\ stack' = Called(t, "ret", ActivateFrame(net[w].srcs[1]))
             /\ trace' = Append(trace, Event("srcActivate", w, net[w].srcs[1], TRUE))
             /\ UNCHANGED ret
    /\ UNCHANGED <<net, st, sub, ops>>

StartWithReturn(t) ==
    /\ At(t, "StartWith", "activate", "ret")
    /\ stack' = Returned(t)
    /\ UNCHANGED <<net, st, ret, sub, ops, trace>>

\* the Subscription returned when the value was rejected: func() {}
StartWithUnsub(t) ==
    /\ At(t, "StartWith", "unsub", "start")
    /\ stack' = Returned(t)
    /\ UNCHANGED <<net, st, ret, sub, ops, trace>>

(***************************************************************************)
(* Flatten (src/stream.go:265-305).  innerSub = 0 is nil.                  *)
(***************************************************************************)
FlattenInit == [innerSub |-> 0, outerCompleted |-> FALSE, unsubscribe |-> 0]

\* var innerSub Subscription; outerCompleted := false; unsubscribe := outer(...)
FlattenActivate(t) ==
    /\ At(t, "Flatten", "activate", "start")
    /\ st' = [st EXCEPT ![Top(t).self] = FlattenInit]
    /\ stack' = Called(t, "ret", ActivateFrame(net[Top(t).self].srcs[1]))
    /\ UNCHANGED <<net, ret, sub, ops, trace>>

\* unsubscribe := ...; return func() {...}
FlattenReturn(t) ==
    /\ At(t, "Flatten", "activate", "ret")
    /\ st' = [st EXCEPT ![Top(t).self].unsubscribe = ret[t].sub]
    /\ ret' = [ret EXCEPT ![t] = [ok |-> TRUE, sub |-> Top(t).self]]
    /\ stack' = Returned(t)
    /\ UNCHANGED <<net, sub, ops, trace>>

\* the test innerSub != nil, on the value v read
NotNil(v) == v # 0

\* outer Next: if innerSub != nil ...   (the frame keeps the value read)
FlattenOuterNext(t) ==
    /\ AtPort(t, "Flatten", "next", "start", OuterPort)
    /\ LET v == st[Top(t).self].innerSub IN
        stack' = IF NotNil(v)
                 THEN [stack EXCEPT ![t] = [@ EXCEPT ![Len(@)].pc = "unsub", ![Len(@)].from = v]]
                 ELSE Moved(t, "act")
    /\ UNCHANGED <<net, st, ret, sub, ops, trace>>

\* outer Next: ... { innerSub() }.  innerSub is read again with no
\* synchronisation: the read yields the value the test saw or the one now
\* in memory, and the call of a nil func panics.
FlattenOuterUnsub(t) ==
    /\ AtPort(t, "Flatten", "next", "unsub", OuterPort)
    /\ \E v \in {Top(t).from, st[Top(t).self].innerSub} :
        IF v = 0
        THEN /\ stack' = [stack EXCEPT ![t] = <<>>]
             /\ trace' = Append(trace, Event("panic", t, 0, FALSE))
        ELSE /\ stack' = Called(t, "act", UnsubFrame(v))
             /\ trace' = Append(trace, Event("innerUnsub", Top(t).self, v, TRUE))
    /\ UNCHANGED <<net, st, ret, sub, ops>>

\* outer Next: stream(Observer[T]{...}), once innerSub() has returned
FlattenOuterActivate(t) ==
    /\ AtPort(t, "Flatten", "next", "act", OuterPort)
    /\ stack' = Called(t, "assign", ActivateFrame(Top(t).data))
    /\ trace' = Append(trace, Event("innerActivate", Top(t).self, Top(t).data, TRUE))
    /\ UNCHANGED <<net, st, ret, sub, ops>>

\* outer Next: innerSub = ...; return true
FlattenOuterAssign(t) ==
    /\ AtPort(t, "Flatten", "next", "assign", OuterPort)
    /\ st' = [st EXCEPT ![Top(t).self].innerSub = ret[t].sub]
    /\ ret' = [ret EXCEPT ![t] = [ok |-> TRUE, sub |-> 0]]
    /\ stack' = Returned(t)
    /\ UNCHANGED <<net, sub, ops, trace>>

\* outer Complete: outerCompleted = true
FlattenOuterComplete(t) ==
    /\ AtPort(t, "Flatten", "complete", "start", OuterPort)
    /\ st' = [st EXCEPT ![Top(t).self].outerCompleted = TRUE]
    /\ trace' = Append(trace, Event("outerComplete", Top(t).self, 0, TRUE))
    /\ stack' = Returned(t)
    /\ UNCHANGED <<net, ret, sub, ops>>

\* inner Next: return observer.Next(data)
FlattenInnerNext(t) ==
    /\ AtPort(t, "Flatten", "next", "start", InnerPort)
    /\ stack' = Called(t, "ret", NextFrame(Top(t).self, Top(t).data))
    /\ trace' = Append(trace, Event("innerNext", Top(t).self, Top(t).from, TRUE))
    /\ UNCHANGED <<net, st, ret, sub, ops>>

FlattenInnerNextReturn(t) ==
    /\ AtPort(t, "Flatten", "next", "ret", InnerPort)
    /\ stack' = Returned(t)
    /\ UNCHANGED <<net, st, ret, sub, ops, trace>>

\* inner Complete: innerSub = nil
FlattenInnerComplete(t) ==
    /\ AtPort(t, "Flatten", "complete", "start", InnerPort)
    /\ st' = [st EXCEPT ![Top(t).self].innerSub = 0]
    /\ trace' = Append(trace, Event("innerComplete", Top(t).self, Top(t).from, TRUE))
    /\ stack' = Moved(t, "chk")
    /\ UNCHANGED <<net, ret, sub, ops>>

\* the join of the two completion signals, as the inner Complete tests it
FlattenJoin(outerCompleted, hasComplete) == outerCompleted /\ hasComplete

\* inner Complete: if outerCompleted && observer.Complete != nil {
\* observer.Complete() }
FlattenInnerCheck(t) ==
    /\ AtPort(t, "Flatten", "complete", "chk", InnerPort)
    /\ stack' = IF FlattenJoin(st[Top(t).self].outerCompleted, HasComplete(Top(t).self))
                THEN Called(t, "ret", CompleteFrame(Top(t).self))
                ELSE Returned(t)
    /\ UNCHANGED <<net, st, ret, sub, ops, trace>>

FlattenInnerCompleteReturn(t) ==
    /\ AtPort(t, "Flatten", "complete", "ret", InnerPort)
    /\ stack' = Returned(t)
    /\ UNCHANGED <<net, st, ret, sub, ops, trace>>

\* the Subscription: unsubscribe()
FlattenUnsub(t) ==
    /\ At(t, "Flatten", "unsub", "start")
    /\ stack' = Called(t, "inner", UnsubFrame(st[Top(t).self].unsubscribe))
    /\ UNCHANGED <<net, st, ret, sub, ops, trace>>

\* the Subscription: if innerSub != nil ...
FlattenUnsubInner(t) ==
    /\ At(t, "Flatten", "unsub", "inner")
    /\ LET v == st[Top(t).self].innerSub IN
        stack' = IF NotNil(v)
                 THEN [stack EXCEPT ![t] = [@ EXCEPT ![Len(@)].pc = "call", ![Len(@)].from = v]]
                 ELSE Returned(t)
    /\ UNCHANGED <<net, st, ret, sub, ops, trace>>

\* the Subscription: ... { innerSub() }, read again as in the outer Next
FlattenUnsubCall(t) ==
    /\ At(t, "Flatten", "unsub", "call")
    /\ \E v \in {Top(t).from, st[Top(t).self].innerSub} :
        IF v = 0
        THEN /\ stack' = [stack EXCEPT ![t] = <<>>]
             /\ trace' = Append(trace, Event("panic", t, 0, FALSE))
        ELSE /\ stack' = Called(t, "ret", UnsubFrame(v))
             /\ trace' = Append(trace, Event("innerUnsub", Top(t).self, v, TRUE))
    /\ UNCHANGED <<net, st, ret, sub, ops>>

FlattenUnsubReturn(t) ==
    /\ At(t, "Flatten", "unsub", "ret")
    /\ stack' = Returned(t)
    /\ UNCHANGED <<net, st, ret, sub, ops, trace>>

(***************************************************************************)
(* The program around the pipeline: the activating context subscribes the  *)
(* top stream; afterwards it, or another context, calls the Subscription.  *)
(***************************************************************************)
Top0 == net[1].down      \* node 1 is the terminal Observer; its `down` names the top stream

DriverInit == [t \in Drivers |->
    IF t = MainT THEN <<Frame("driver", "start", 1, 0)>> ELSE <<Frame("driver", "idle", 1, 0)>>]

\* Subscribe(obs)(source): source(obs)
DriverStart(t) ==
    /\ At(t, "Terminal", "driver", "start")
    /\ stack' = Called(t, "got", ActivateFrame(Top0))
    /\ UNCHANGED <<net, st, ret, sub, ops, trace>>

DriverGot(t) ==
    /\ At(t, "Terminal", "driver", "got")
    /\ sub' = ret[t].sub
    /\ stack' = Moved(t, "idle")
    /\ UNCHANGED <<net, st, ret, ops, trace>>

\* a caller invokes the Subscription
DriverCancel(t) ==
    /\ At(t, "Terminal", "driver", "idle")
    /\ sub # 0
    /\ ops[t] < net[1].budget[t]
    /\ ops' = [ops EXCEPT ![t] = @ + 1]
    /\ stack' = Called(t, "cancelled", UnsubFrame(sub))
    /\ UNCHANGED <<net, st, ret, sub, trace>>

\* the Subscription call has returned
DriverCancelled(t) ==
    /\ At(t, "Terminal", "driver", "cancelled")
    /\ trace' = Append(trace, Event("cancelRet", t, 0, TRUE))
    /\ stack' = Moved(t, "idle")
    /\ UNCHANGED <<net, st, ret, sub, ops>>

\* the values the callers push are 1, 2, ... in the order of the calls
Pushed == Cardinality({k \in DOMAIN trace : trace[k].ev = "pushCall"})

\* a caller pushes a value into an Accept stream: accept(v)
DriverPush(t) ==
    /\ At(t, "Terminal", "driver", "idle")
    /\ ops[t] < net[1].budget[t]
    /\ \E a \in {n \in Nodes : Kind(n) = "Accept" /\ Cell(n) = n} :
        /\ stack' = Called(t, "pushed", Frame("push", "start", a, Pushed + 1))
        /\ trace' = Append(trace, Event("pushCall", t, Pushed + 1, TRUE))
    /\ ops' = [ops EXCEPT ![t] = @ + 1]
    /\ UNCHANGED <<net, st, ret, sub>>

\* accept(v) has returned
DriverPushed(t) ==
    /\ At(t, "Terminal", "driver", "pushed")
    /\ trace' = Append(trace, Event("pushRet", t, 0, ret[t].ok))
    /\ stack' = Moved(t, "idle")
    /\ UNCHANGED <<net, st, ret, sub, ops>>

\* the event source delivers a value: l.Accept(v)
DriverEmit(t) ==
    /\ At(t, "Terminal", "driver", "idle")
    /\ ops[t] < net[1].budget[t]
    /\ \E l \in {n \in Nodes : Kind(n) = "Listener"} :
        stack' = Called(t, "idle", Frame("emit", "start", l, ops[t] + 1))
    /\ ops' = [ops EXCEPT ![t] = @ + 1]
    /\ UNCHANGED <<net, st, ret, sub, trace>>

(***************************************************************************)
(* A second subscriber of the top stream: observer B is node ObserverB,    *)
(* the activation it starts is node ActivationB, and st[ObserverB].x is    *)
(* the variable that holds the Subscription it was returned (0: none yet). *)
(***************************************************************************)
ObserverB == 3
ActivationB == 4

\* Subscribe(obsB)(source), once the first subscriber has subscribed
DriverStartB(t) ==
    /\ At(t, "Terminal", "driver", "idle")
    /\ sub # 0
    /\ st[ObserverB].x = 0
    /\ stack' = Called(t, "gotB", ActivateFrame(ActivationB))
    /\ UNCHANGED <<net, st, ret, sub, ops, trace>>

DriverGotB(t) ==
    /\ At(t, "Terminal", "driver", "gotB")
    /\ st' = [st EXCEPT ![ObserverB].x = ret[t].sub]
    /\ stack' = Moved(t, "idle")
    /\ UNCHANGED <<net, ret, sub, ops, trace>>

\* the second subscriber invokes its Subscription
DriverCancelB(t) ==
    /\ At(t, "Terminal", "driver", "idle")
    /\ st[ObserverB].x # 0
    /\ ops[t] < net[1].budget[t]
    /\ ops' = [ops EXCEPT ![t] = @ + 1]
    /\ stack' = Called(t, "cancelledB", UnsubFrame(st[ObserverB].x))
    /\ UNCHANGED <<net, st, ret, sub, trace>>

DriverCancelledB(t) ==
    /\ At(t, "Terminal", "driver", "cancelledB")
    /\ trace' = Append(trace, Event("cancelRetB", t, 0, TRUE))
    /\ stack' = Moved(t, "idle")
    /\ UNCHANGED <<net, st, ret, sub, ops>>

(***************************************************************************)
(* Periodic subscribed by a terminal Observer                              *)
(***************************************************************************)
Node(kind, down, port) ==
    [kind |-> kind, down |-> down, port |-> port, hc |-> TRUE,
     srcs |-> <<>>, args |-> <<>>, n |-> 0, budget |-> <<>>]

\* the terminal Observer; budget[t] bounds the operations of driver thread t
Terminal(top, hc, budget) ==
    [kind |-> "Terminal", down |-> top, port |-> 0, hc |-> hc,
     srcs |-> <<>>, args |-> <<>>, n |-> 0, budget |-> budget]

Budget(main, aux) == [t \in Drivers |-> IF t = MainT THEN main ELSE aux]

\* a Periodic activation whose ticker delivers at most `ticks` ticks
PeriodicNode(down, port, ticks) == [Node("Periodic", down, port) EXCEPT !.n = ticks]

NetPeriodic(hc) ==
    <<Terminal(2, hc, Budget(MaxOps, MaxOps)), PeriodicNode(1, 0, MaxTicks)>>

NodeInit(nd) ==
    CASE nd.kind = "Periodic" -> PeriodicInit
      [] nd.kind = "Take" -> TakeInit
      [] nd.kind = "Accept" -> AcceptInit
      [] nd.kind = "Flatten" -> FlattenInit
      [] nd.kind = "Listener" -> ListenerInit
      [] nd.kind = "Merge" -> MergeInit(Len(nd.srcs))
      [] nd.kind = "Reduce" -> ReduceInit(nd.n)
      [] OTHER -> [x |-> 0]

InitNet(w) ==
    /\ net = w
    /\ st = [n \in DOMAIN w |-> NodeInit(w[n])]
    /\ stack = [t \in Drivers \cup {LoopT(p) : p \in {n \in DOMAIN w : w[n].kind = "Periodic"}} |->
                 IF t \in Drivers THEN DriverInit[t] ELSE <<>>]
    /\ ret = [t \in Drivers \cup {LoopT(p) : p \in {n \in DOMAIN w : w[n].kind = "Periodic"}} |-> [ok |-> TRUE, sub |-> 0]]
    /\ sub = 0
    /\ ops = [t \in Drivers |-> 0]
    /\ trace = <<>>

InitPeriodic == \E hc \in BOOLEAN : InitNet(NetPeriodic(hc))

NextPeriodic ==
    \/ \E p \in Nodes : Tick(p) /\ Quiet
    \/ \E t \in Threads : DriverStart(t) /\ Sched(t)
    \/ \E t \in Threads : DriverGot(t) /\ Sched(t)
    \/ \E t \in Threads : DriverCancel(t) /\ Sched(t)
    \/ \E t \in Threads : DriverCancelled(t) /\ Sched(t)
    \/ \E t \in Threads : PeriodicActivate(t) /\ Sched(t)
    \/ \E t \in Threads : LoopDone(t) /\ Sched(t)
    \/ \E t \in Threads : LoopTick(t) /\ Sched(t)
    \/ \E t \in Threads : LoopNext(t) /\ Sched(t)
    \/ \E t \in Threads : LoopOk(t) /\ Sched(t)
    \/ \E t \in Threads : LoopInc(t) /\ Sched(t)
    \/ \E t \in Threads : UnsubDo(t) /\ Sched(t)
    \/ \E t \in Threads : UnsubStop(t) /\ Sched(t)
    \/ \E t \in Threads : UnsubClose(t) /\ Sched(t)
    \/ \E t \in Threads : UnsubComplete(t) /\ Sched(t)
    \/ \E t \in Threads : UnsubUnlock(t) /\ Sched(t)
    \/ \E t \in Threads : TerminalNext(t) /\ Sched(t)
    \/ \E t \in Threads : TerminalComplete(t) /\ Sched(t)

SpecPeriodic == InitPeriodic /\ [][NextPeriodic]_vars

\* the steps of goroutine t that the Go scheduler runs sooner or later: every
\* step but the decision of a caller to invoke the Subscription
PeriodicRun(t) ==
    /\ \/ DriverStart(t) \/ DriverGot(t) \/ DriverCancelled(t)
       \/ PeriodicActivate(t)
       \/ LoopDone(t) \/ LoopTick(t) \/ LoopNext(t) \/ LoopOk(t) \/ LoopInc(t)
       \/ UnsubDo(t) \/ UnsubStop(t) \/ UnsubClose(t) \/ UnsubComplete(t) \/ UnsubUnlock(t)
       \/ TerminalNext(t) \/ TerminalComplete(t)
    /\ Sched(t)

NetFair(hc) ==
    <<Terminal(2, hc, Budget(FairOps, FairOps)), PeriodicNode(1, 0, FairTicks)>>

InitFair == \E hc \in BOOLEAN : InitNet(NetFair(hc))

\* Periodic under a fair scheduler: no runnable goroutine waits forever
FairPeriodic ==
    /\ InitFair
    /\ [][NextPeriodic]_vars
    /\ \A t \in {MainT, AuxT, LoopT(2)} : WF_vars(PeriodicRun(t))

(***************************************************************************)
(* Merge of Periodic and From sources subscribed by a terminal Observer    *)
(***************************************************************************)
SourceKinds(K, len) == UNION {[1..k -> K] : k \in 1..len}

\* a source node: a Periodic of at most `ticks` ticks, From(1, ..., len),
\* an Accept stream (with its completion callback) or a FromListener
Source(kind, down, port, ticks, len) ==
    CASE kind = "Periodic" -> PeriodicNode(down, port, ticks)
      [] kind = "From" -> [Node(kind, down, port) EXCEPT !.args = [j \in 1..len |-> j]]
      [] OTHER -> Node(kind, down, port)

NetMerge(kinds, hc) ==
    <<Terminal(2, hc, Budget(MergeOps, 0)), [Node("Merge", 1, 0) EXCEPT !.srcs = [j \in 1..Len(kinds) |-> j + 2]]>>
    \o [j \in 1..Len(kinds) |-> Source(kinds[j], 2, 0, MergeTicks, 1)]

InitMerge ==
    \E kinds \in SourceKinds({"Periodic", "From"}, MaxSources) : \E hc \in BOOLEAN :
        InitNet(NetMerge(kinds, hc))

NextMerge ==
    \/ \E p \in Nodes : Tick(p) /\ Quiet
    \/ \E t \in Threads : DriverStart(t) /\ Sched(t)
    \/ \E t \in Threads : DriverGot(t) /\ Sched(t)
    \/ \E t \in Threads : DriverCancel(t) /\ Sched(t)
    \/ \E t \in Threads : DriverCancelled(t) /\ Sched(t)
    \/ \E t \in Threads : PeriodicActivate(t) /\ Sched(t)
    \/ \E t \in Threads : LoopDone(t) /\ Sched(t)
    \/ \E t \in Threads : LoopTick(t) /\ Sched(t)
    \/ \E t \in Threads : LoopNext(t) /\ Sched(t)
    \/ \E t \in Threads : LoopOk(t) /\ Sched(t)
    \/ \E t \in Threads : LoopInc(t) /\ Sched(t)
    \/ \E t \in Threads : UnsubDo(t) /\ Sched(t)
    \/ \E t \in Threads : UnsubStop(t) /\ Sched(t)
    \/ \E t \in Threads : UnsubClose(t) /\ Sched(t)
    \/ \E t \in Threads : UnsubComplete(t) /\ Sched(t)
    \/ \E t \in Threads : UnsubUnlock(t) /\ Sched(t)
    \/ \E t \in Threads : FromLoop(t) /\ Sched(t)
    \/ \E t \in Threads : FromChk(t) /\ Sched(t)
    \/ \E t \in Threads : FromComplete(t) /\ Sched(t)
    \/ \E t \in Threads : FromReturn(t) /\ Sched(t)
    \/ \E t \in Threads : FromUnsub(t) /\ Sched(t)
    \/ \E t \in Threads : MergeActivate(t) /\ Sched(t)
    \/ \E t \in Threads : MergeStore(t) /\ Sched(t)
    \/ \E t \in Threads : MergeReturn(t) /\ Sched(t)
    \/ \E t \in Threads : MergeLoad(t) /\ Sched(t)
    \/ \E t \in Threads : MergeStoreCount(t) /\ Sched(t)
    \/ \E t \in Threads : MergeCheck(t) /\ Sched(t)
    \/ \E t \in Threads : MergeCompleteReturn(t) /\ Sched(t)
    \/ \E t \in Threads : MergeUnsub(t) /\ Sched(t)
    \/ \E t \in Threads : TerminalNext(t) /\ Sched(t)
    \/ \E t \in Threads : TerminalComplete(t) /\ Sched(t)

SpecMerge == InitMerge /\ [][NextMerge]_vars

(***************************************************************************)
(* Take(n) over one source, or over a Merge of sources, subscribed by a    *)
(* terminal Observer                                                       *)
(***************************************************************************)
TakeNode(down, src, n) == [Node("Take", down, 0) EXCEPT !.srcs = <<src>>, !.n = n]

NetTake(kinds, n, len, hc) ==
    IF Len(kinds) = 1
    THEN <<Terminal(2, hc, Budget(TakeOps, 0)), TakeNode(1, 3, n),
           Source(kinds[1], 2, 0, TakeTicks, len)>>
    ELSE <<Terminal(2, hc, Budget(TakeOps, 0)), TakeNode(1, 3, n),
           [Node("Merge", 2, 0) EXCEPT !.srcs = [j \in 1..Len(kinds) |-> j + 3]]>>
         \o [j \in 1..Len(kinds) |-> Source(kinds[j], 3, 0, TakeTicks, len)]

\* every source alone, every Merge of sources that run on their caller's
\* thread, and a Merge of From and Periodic as in the tests
TakeUpstreams ==
    SourceKinds({"From", "Periodic", "Accept", "Listener"}, 1)
    \cup SourceKinds({"From", "Accept", "Listener"}, MaxSources)
    \cup {<<"From", "Periodic">>}

InitTake ==
    \E kinds \in TakeUpstreams : \E n \in 0..MaxTake : \E len \in 1..MaxLen : \E hc \in BOOLEAN :
        /\ (\A j \in DOMAIN kinds : kinds[j] # "From") => len = 1
        /\ InitNet(NetTake(kinds, n, len, hc))

NextTake ==
    \/ \E p \in Nodes : Tick(p) /\ Quiet
    \/ \E t \in Threads : DriverStart(t) /\ Sched(t)
    \/ \E t \in Threads : DriverGot(t) /\ Sched(t)
    \/ \E t \in Threads : DriverCancel(t) /\ Sched(t)
    \/ \E t \in Threads : DriverCancelled(t) /\ Sched(t)
    \/ \E t \in Threads : DriverPush(t) /\ Sched(t)
    \/ \E t \in Threads : DriverPushed(t) /\ Sched(t)
    \/ \E t \in Threads : DriverEmit(t) /\ Sched(t)
    \/ \E t \in Threads : PeriodicActivate(t) /\ Sched(t)
    \/ \E t \in Threads : LoopDone(t) /\ Sched(t)
    \/ \E t \in Threads : LoopTick(t) /\ Sched(t)
    \/ \E t \in Threads : LoopNext(t) /\ Sched(t)
    \/ \E t \in Threads : LoopOk(t) /\ Sched(t)
    \/ \E t \in Threads : LoopInc(t) /\ Sched(t)
    \/ \E t \in Threads : UnsubDo(t) /\ Sched(t)
    \/ \E t \in Threads : UnsubStop(t) /\ Sched(t)
    \/ \E t \in Threads : UnsubClose(t) /\ Sched(t)
    \/ \E t \in Threads : UnsubComplete(t) /\ Sched(t)
    \/ \E t \in Threads : UnsubUnlock(t) /\ Sched(t)
    \/ \E t \in Threads : FromLoop(t) /\ Sched(t)
    \/ \E t \in Threads : FromChk(t) /\ Sched(t)
    \/ \E t \in Threads : FromComplete(t) /\ Sched(t)
    \/ \E t \in Threads : FromReturn(t) /\ Sched(t)
    \/ \E t \in Threads : FromUnsub(t) /\ Sched(t)
    \/ \E t \in Threads : AcceptActivate(t) /\ Sched(t)
    \/ \E t \in Threads : AcceptCheck(t) /\ Sched(t)
    \/ \E t \in Threads : AcceptCall(t) /\ Sched(t)
    \/ \E t \in Threads : AcceptReturn(t) /\ Sched(t)
    \/ \E t \in Threads : AcceptUnsub(t) /\ Sched(t)
    \/ \E t \in Threads : AcceptUnsubComplete(t) /\ Sched(t)
    \/ \E t \in Threads : AcceptUnsubCompleted(t) /\ Sched(t)
    \/ \E t \in Threads : ListenerActivate(t) /\ Sched(t)
    \/ \E t \in Threads : ListenerEmit(t) /\ Sched(t)
    \/ \E t \in Threads : ListenerEmitReturn(t) /\ Sched(t)
    \/ \E t \in Threads : ListenerUnsub(t) /\ Sched(t)
    \/ \E t \in Threads : ListenerUnsubComplete(t) /\ Sched(t)
    \/ \E t \in Threads : ListenerUnsubReturn(t) /\ Sched(t)
    \/ \E t \in Threads : TakeActivate(t) /\ Sched(t)
    \/ \E t \in Threads : TakeReturn(t) /\ Sched(t)
    \/ \E t \in Threads : TakeNext(t) /\ Sched(t)
    \/ \E t \in Threads : TakeAfter(t) /\ Sched(t)
    \/ \E t \in Threads : MergeActivate(t) /\ Sched(t)
    \/ \E t \in Threads : MergeStore(t) /\ Sched(t)
    \/ \E t \in Threads : MergeReturn(t) /\ Sched(t)
    \/ \E t \in Threads : MergeLoad(t) /\ Sched(t)
    \/ \E t \in Threads : MergeStoreCount(t) /\ Sched(t)
    \/ \E t \in Threads : MergeCheck(t) /\ Sched(t)
    \/ \E t \in Threads : MergeCompleteReturn(t) /\ Sched(t)
    \/ \E t \in Threads : MergeUnsub(t) /\ Sched(t)
    \/ \E t \in Threads : TerminalNext(t) /\ Sched(t)
    \/ \E t \in Threads : TerminalComplete(t) /\ Sched(t)

SpecTake == InitTake /\ [][NextTake]_vars

(***************************************************************************)
(* Flatten over From(1, ..., k) mapped to k inner streams (From(x) or      *)
(* Periodic), subscribed by a terminal Observer                            *)
(***************************************************************************)
NetFlatten(kinds, hc) ==
    <<Terminal(2, hc, Budget(FlattenOps, 0)),
      [Node("Flatten", 1, 0) EXCEPT !.srcs = <<3>>],
      [Node("Map", 2, OuterPort) EXCEPT !.srcs = <<4>>, !.args = [j \in 1..Len(kinds) |-> j + 4]],
      Source("From", 3, 0, 0, Len(kinds))>>
    \o [j \in 1..Len(kinds) |-> Source(kinds[j], 2, InnerPort, FlattenTicks, 1)]

\* the inner streams: From and Periodic in every order, one Periodic at most
FlattenInners ==
    {ks \in SourceKinds({"From", "Periodic"}, MaxInner) :
        Cardinality({j \in DOMAIN ks : ks[j] = "Periodic"}) <= 1}

InitFlatten ==
    \E kinds \in FlattenInners : \E hc \in BOOLEAN : InitNet(NetFlatten(kinds, hc))

NextFlatten ==
    \/ \E p \in Nodes : Tick(p) /\ Quiet
    \/ \E t \in Threads : DriverStart(t) /\ Sched(t)
    \/ \E t \in Threads : DriverGot(t) /\ Sched(t)
    \/ \E t \in Threads : DriverCancel(t) /\ Sched(t)
    \/ \E t \in Threads : DriverCancelled(t) /\ Sched(t)
    \/ \E t \in Threads : PeriodicActivate(t) /\ Sched(t)
    \/ \E t \in Threads : LoopDone(t) /\ Sched(t)
    \/ \E t \in Threads : LoopTick(t) /\ Sched(t)
    \/ \E t \in Threads : LoopNext(t) /\ Sched(t)
    \/ \E t \in Threads : LoopOk(t) /\ Sched(t)
    \/ \E t \in Threads : LoopInc(t) /\ Sched(t)
    \/ \E t \in Threads : UnsubDo(t) /\ Sched(t)
    \/ \E t \in Threads : UnsubStop(t) /\ Sched(t)
    \/ \E t \in Threads : UnsubClose(t) /\ Sched(t)
    \/ \E t \in Threads : UnsubComplete(t) /\ Sched(t)
    \/ \E t \in Threads : UnsubUnlock(t) /\ Sched(t)
    \/ \E t \in Threads : FromLoop(t) /\ Sched(t)
    \/ \E t \in Threads : FromChk(t) /\ Sched(t)
    \/ \E t \in Threads : FromComplete(t) /\ Sched(t)
    \/ \E t \in Threads : FromReturn(t) /\ Sched(t)
    \/ \E t \in Threads : FromUnsub(t) /\ Sched(t)
    \/ \E t \in Threads : MapActivate(t) /\ Sched(t)
    \/ \E t \in Threads : MapReturn(t) /\ Sched(t)
    \/ \E t \in Threads : FlattenActivate(t) /\ Sched(t)
    \/ \E t \in Threads : FlattenReturn(t) /\ Sched(t)
    \/ \E t \in Threads : FlattenOuterNext(t) /\ Sched(t)
    \/ \E t \in Threads : FlattenOuterUnsub(t) /\ Sched(t)
    \/ \E t \in Threads : FlattenOuterActivate(t) /\ Sched(t)
    \/ \E t \in Threads : FlattenOuterAssign(t) /\ Sched(t)
    \/ \E t \in Threads : FlattenOuterComplete(t) /\ Sched(t)
    \/ \E t \in Threads : FlattenInnerNext(t) /\ Sched(t)
    \/ \E t \in Threads : FlattenInnerNextReturn(t) /\ Sched(t)
    \/ \E t \in Threads : FlattenInnerComplete(t) /\ Sched(t)
    \/ \E t \in Threads : FlattenInnerCheck(t) /\ Sched(t)
    \/ \E t \in Threads : FlattenInnerCompleteReturn(t) /\ Sched(t)
    \/ \E t \in Threads : FlattenUnsub(t) /\ Sched(t)
    \/ \E t \in Threads : FlattenUnsubInner(t) /\ Sched(t)
    \/ \E t \in Threads : FlattenUnsubCall(t) /\ Sched(t)
    \/ \E t \in Threads : FlattenUnsubReturn(t) /\ Sched(t)
    \/ \E t \in Threads : TerminalNext(t) /\ Sched(t)
    \/ \E t \in Threads : TerminalComplete(t) /\ Sched(t)

SpecFlatten == InitFlatten /\ [][NextFlatten]_vars

(***************************************************************************)
(* Flatten over a Periodic outer source whose values 0, 1, ... are mapped  *)
(* to inner streams (From(1) or FromListener): the outer Next runs on the  *)
(* outer loop goroutine while the subscriber calls the Subscription        *)
(***************************************************************************)
NetFlattenBg(kinds, hc) ==
    <<Terminal(2, hc, Budget(FlattenOps, 0)),
      [Node("Flatten", 1, 0) EXCEPT !.srcs = <<3>>],
      [Node("Map", 2, OuterPort) EXCEPT !.srcs = <<4>>, !.n = 1,
                                        !.args = [j \in 1..Len(kinds) |-> j + 4]],
      PeriodicNode(3, 0, Len(kinds))>>
    \o [j \in 1..Len(kinds) |-> Source(kinds[j], 2, InnerPort, FlattenTicks, 1)]

\* the inner streams: a FromListener first, then From(1)
BgInners == {ks \in SourceKinds({"From", "Listener"}, MaxInner) :
                \A j \in DOMAIN ks : (ks[j] = "Listener") <=> (j = 1)}

InitFlattenBg ==
    \E kinds \in BgInners : \E hc \in BOOLEAN : InitNet(NetFlattenBg(kinds, hc))

NextFlattenBg ==
    \/ NextFlatten
    \/ \E t \in Threads : ListenerActivate(t) /\ Sched(t)
    \/ \E t \in Threads : ListenerUnsub(t) /\ Sched(t)
    \/ \E t \in Threads : ListenerUnsubComplete(t) /\ Sched(t)
    \/ \E t \in Threads : ListenerUnsubReturn(t) /\ Sched(t)

SpecFlattenBg == InitFlattenBg /\ [][NextFlattenBg]_vars

(***************************************************************************)
(* An Accept stream or a FromListener stream subscribed by a terminal      *)
(* Observer: two callers push or emit values and call the Subscription     *)
(***************************************************************************)
\* cb: the `completed` callback of Accept is not nil
NetPush(kind, hc, cb) ==
    <<Terminal(2, hc, Budget(PushOps, PushAuxOps)), [Node(kind, 1, 0) EXCEPT !.hc = cb]>>

InitPush ==
    \E kind \in {"Accept", "Listener"} : \E hc \in BOOLEAN : \E cb \in BOOLEAN :
        /\ (kind = "Listener") => cb
        /\ InitNet(NetPush(kind, hc, cb))

NextPush ==
    \/ \E t \in Threads : DriverStart(t) /\ Sched(t)
    \/ \E t \in Threads : DriverGot(t) /\ Sched(t)
    \/ \E t \in Threads : DriverCancel(t) /\ Sched(t)
    \/ \E t \in Threads : DriverCancelled(t) /\ Sched(t)
    \/ \E t \in Threads : DriverPush(t) /\ Sched(t)
    \/ \E t \in Threads : DriverPushed(t) /\ Sched(t)
    \/ \E t \in Threads : DriverEmit(t) /\ Sched(t)
    \/ \E t \in Threads : AcceptActivate(t) /\ Sched(t)
    \/ \E t \in Threads : AcceptCheck(t) /\ Sched(t)
    \/ \E t \in Threads : AcceptCall(t) /\ Sched(t)
    \/ \E t \in Threads : AcceptReturn(t) /\ Sched(t)
    \/ \E t \in Threads : AcceptUnsub(t) /\ Sched(t)
    \/ \E t \in Threads : AcceptUnsubComplete(t) /\ Sched(t)
    \/ \E t \in Threads : AcceptUnsubCompleted(t) /\ Sched(t)
    \/ \E t \in Threads : ListenerActivate(t) /\ Sched(t)
    \/ \E t \in Threads : ListenerEmit(t) /\ Sched(t)
    \/ \E t \in Threads : ListenerEmitReturn(t) /\ Sched(t)
    \/ \E t \in Threads : ListenerUnsub(t) /\ Sched(t)
    \/ \E t \in Threads : ListenerUnsubComplete(t) /\ Sched(t)
    \/ \E t \in Threads : ListenerUnsubReturn(t) /\ Sched(t)
    \/ \E t \in Threads : TerminalNext(t) /\ Sched(t)
    \/ \E t \in Threads : TerminalComplete(t) /\ Sched(t)

SpecPush == InitPush /\ [][NextPush]_vars

(***************************************************************************)
(* An Accept stream as in TestAccept_Subscribe: the subscriber activates   *)
(* the stream and calls the Subscription, a second goroutine pushes        *)
(***************************************************************************)
NetAccept(hc, cb) ==
    <<Terminal(2, hc, Budget(AcceptCancels, AcceptPushes)), [Node("Accept", 1, 0) EXCEPT !.hc = cb]>>

InitAccept == \E hc \in BOOLEAN : \E cb \in BOOLEAN : InitNet(NetAccept(hc, cb))

NextAccept ==
    \/ \E t \in Threads : DriverStart(t) /\ Sched(t)
    \/ \E t \in Threads : DriverGot(t) /\ Sched(t)
    \/ \E t \in Threads : DriverCancel(t) /\ t = MainT /\ Sched(t)
    \/ \E t \in Threads : DriverCancelled(t) /\ Sched(t)
    \/ \E t \in Threads : DriverPush(t) /\ t = AuxT /\ Sched(t)
    \/ \E t \in Threads : DriverPushed(t) /\ Sched(t)
    \/ \E t \in Threads : AcceptActivate(t) /\ Sched(t)
    \/ \E t \in Threads : AcceptCheck(t) /\ Sched(t)
    \/ \E t \in Threads : AcceptCall(t) /\ Sched(t)
    \/ \E t \in Threads : AcceptReturn(t) /\ Sched(t)
    \/ \E t \in Threads : AcceptUnsub(t) /\ Sched(t)
    \/ \E t \in Threads : AcceptUnsubComplete(t) /\ Sched(t)
    \/ \E t \in Threads : AcceptUnsubCompleted(t) /\ Sched(t)
    \/ \E t \in Threads : TerminalNext(t) /\ Sched(t)
    \/ \E t \in Threads : TerminalComplete(t) /\ Sched(t)

SpecAccept == InitAccept /\ [][NextAccept]_vars

(***************************************************************************)
(* Reduce(a, f) or StartWith(a) over From(S), an Accept stream or a        *)
(* FromListener stream, subscribed by a terminal Observer                  *)
(***************************************************************************)
FoldFns == {"add", "sub", "last", "first"}

\* the sequences From delivers
FoldSeqs == UNION {[1..k -> 1..MaxValue] : k \in 0..MaxFold}

NetFold(kind, a, fn, src, S, hc) ==
    <<Terminal(2, hc, Budget(FoldOps, 0)),
      [Node(kind, 1, 0) EXCEPT !.srcs = <<3>>, !.n = a, !.args = <<fn>>],
      [Node(src, 2, 0) EXCEPT !.args = S]>>

InitFold ==
    \E kind \in {"Reduce", "StartWith"} : \E a \in 0..MaxStart : \E fn \in FoldFns :
    \E src \in {"From", "Accept", "Listener"} : \E S \in FoldSeqs : \E hc \in BOOLEAN :
        /\ (kind = "StartWith") => fn = "first"
        /\ (src # "From") => S = <<>>
        /\ InitNet(NetFold(kind, a, fn, src, S, hc))

NextFold ==
    \/ \E t \in Threads : DriverStart(t) /\ Sched(t)
    \/ \E t \in Threads : DriverGot(t) /\ Sched(t)
    \/ \E t \in Threads : DriverCancel(t) /\ Sched(t)
    \/ \E t \in Threads : DriverCancelled(t) /\ Sched(t)
    \/ \E t \in Threads : DriverPush(t) /\ Sched(t)
    \/ \E t \in Threads : DriverPushed(t) /\ Sched(t)
    \/ \E t \in Threads : DriverEmit(t) /\ Sched(t)
    \/ \E t \in Threads : ReduceActivate(t) /\ Sched(t)
    \/ \E t \in Threads : ReduceChk(t) /\ Sched(t)
    \/ \E t \in Threads : ReduceReturn(t) /\ Sched(t)
    \/ \E t \in Threads : ReduceNext(t) /\ Sched(t)
    \/ \E t \in Threads : ReduceNextReturn(t) /\ Sched(t)
    \/ \E t \in Threads : ReduceUnsub(t) /\ Sched(t)
    \/ \E t \in Threads : StartWithActivate(t) /\ Sched(t)
    \/ \E t \in Threads : StartWithChk(t) /\ Sched(t)
    \/ \E t \in Threads : StartWithReturn(t) /\ Sched(t)
    \/ \E t \in Threads : StartWithUnsub(t) /\ Sched(t)
    \/ \E t \in Threads : FromLoop(t) /\ Sched(t)
    \/ \E t \in Threads : FromChk(t) /\ Sched(t)
    \/ \E t \in Threads : FromComplete(t) /\ Sched(t)
    \/ \E t \in Threads : FromReturn(t) /\ Sched(t)
    \/ \E t \in Threads : FromUnsub(t) /\ Sched(t)
    \/ \E t \in Threads : AcceptActivate(t) /\ Sched(t)
    \/ \E t \in Threads : AcceptCheck(t) /\ Sched(t)
    \/ \E t \in Threads : AcceptCall(t) /\ Sched(t)
    \/ \E t \in Threads : AcceptReturn(t) /\ Sched(t)
    \/ \E t \in Threads : AcceptUnsub(t) /\ Sched(t)
    \/ \E t \in Threads : AcceptUnsubComplete(t) /\ Sched(t)
    \/ \E t \in Threads : AcceptUnsubCompleted(t) /\ Sched(t)
    \/ \E t \in Threads : ListenerActivate(t) /\ Sched(t)
    \/ \E t \in Threads : ListenerEmit(t) /\ Sched(t)
    \/ \E t \in Threads : ListenerEmitReturn(t) /\ Sched(t)
    \/ \E t \in Threads : ListenerUnsub(t) /\ Sched(t)
    \/ \E t \in Threads : ListenerUnsubComplete(t) /\ Sched(t)
    \/ \E t \in Threads : ListenerUnsubReturn(t) /\ Sched(t)
    \/ \E t \in Threads : TerminalNext(t) /\ Sched(t)
    \/ \E t \in Threads : TerminalComplete(t) /\ Sched(t)

SpecFold == InitFold /\ [][NextFold]_vars

(***************************************************************************)
(* From(S) subscribed by a terminal Observer                               *)
(***************************************************************************)
NetFrom(S, hc) ==
    <<Terminal(2, hc, Budget(FromOps, 0)), [Node("From", 1, 0) EXCEPT !.args = S]>>

FromSeqs == UNION {[1..k -> 1..MaxValue] : k \in 0..FromLen}

InitFrom == \E S \in FromSeqs : \E hc \in BOOLEAN : InitNet(NetFrom(S, hc))

NextFrom ==
    \/ \E t \in Threads : DriverStart(t) /\ Sched(t)
    \/ \E t \in Threads : DriverGot(t) /\ Sched(t)
    \/ \E t \in Threads : DriverCancel(t) /\ Sched(t)
    \/ \E t \in Threads : DriverCancelled(t) /\ Sched(t)
    \/ \E t \in Threads : FromLoop(t) /\ Sched(t)
    \/ \E t \in Threads : FromChk(t) /\ Sched(t)
    \/ \E t \in Threads : FromComplete(t) /\ Sched(t)
    \/ \E t \in Threads : FromReturn(t) /\ Sched(t)
    \/ \E t \in Threads : FromUnsub(t) /\ Sched(t)
    \/ \E t \in Threads : TerminalNext(t) /\ Sched(t)
    \/ \E t \in Threads : TerminalComplete(t) /\ Sched(t)

SpecFrom == InitFrom /\ [][NextFrom]_vars

(***************************************************************************)
(* One Accept stream activated twice, by observer A and then by observer  *)
(* B; one goroutine pushes and calls the two Subscriptions in any order    *)
(***************************************************************************)
NetAgain(hcA, hcB, cb) ==
    <<Terminal(2, hcA, Budget(AgainOps, 0)),
      [Node("Accept", 1, 0) EXCEPT !.hc = cb],
      Terminal(ActivationB, hcB, Budget(0, 0)),
      [Node("Accept", ObserverB, 0) EXCEPT !.hc = cb, !.args = <<2>>]>>

InitAgain ==
    \E hcA \in BOOLEAN : \E hcB \in BOOLEAN : \E cb \in BOOLEAN :
        InitNet(NetAgain(hcA, hcB, cb))

NextAgain ==
    \/ \E t \in Threads : DriverStart(t) /\ Sched(t)
    \/ \E t \in Threads : DriverGot(t) /\ Sched(t)
    \/ \E t \in Threads : DriverCancel(t) /\ Sched(t)
    \/ \E t \in Threads : DriverCancelled(t) /\ Sched(t)
    \/ \E t \in Threads : DriverStartB(t) /\ t = MainT /\ Sched(t)
    \/ \E t \in Threads : DriverGotB(t) /\ Sched(t)
    \/ \E t \in Threads : DriverCancelB(t) /\ Sched(t)
    \/ \E t \in Threads : DriverCancelledB(t) /\ Sched(t)
    \/ \E t \in Threads : DriverPush(t) /\ Sched(t)
    \/ \E t \in Threads : DriverPushed(t) /\ Sched(t)
    \/ \E t \in Threads : AcceptActivate(t) /\ Sched(t)
    \/ \E t \in Threads : AcceptCheck(t) /\ Sched(t)
    \/ \E t \in Threads : AcceptCall(t) /\ Sched(t)
    \/ \E t \in Threads : AcceptReturn(t) /\ Sched(t)
    \/ \E t \in Threads : AcceptUnsub(t) /\ Sched(t)
    \/ \E t \in Threads : AcceptUnsubComplete(t) /\ Sched(t)
    \/ \E t \in Threads : AcceptUnsubCompleted(t) /\ Sched(t)
    \/ \E t \in Threads : TerminalNext(t) /\ Sched(t)
    \/ \E t \in Threads : TerminalComplete(t) /\ Sched(t)

SpecAgain == InitAgain /\ [][NextAgain]_vars

(***************************************************************************)
(* What the observer and the callers have seen                             *)
(***************************************************************************)
Seen(ev) == {k \in DOMAIN trace : trace[k].ev = ev}
Completes == Cardinality(Seen("complete"))

\* C1: once a call of the Subscription of a Periodic activation has returned,
\* the observer's Next is never called again.
C1_NoNextAfterCancelReturned ==
    \A j \in Seen("cancelRet") : \A k \in Seen("next") : k < j

\* a stop path has run: a Subscription call has returned, or the unsub() the
\* loop calls after Next returned false has returned
StopPathRan == Seen("cancelRet") \cup Seen("stopRet") # {}

\* C2: with a Complete callback, however the loop's own stop and the calls of
\* the Subscription interleave, Complete is delivered at most once, and exactly
\* once as soon as either stop path has run.
C2_CompleteExactlyOnce ==
    net[1].hc => /\ Completes <= 1
                 /\ StopPathRan => Completes = 1

\* both stop paths have run in one activation
C2_BothPathsRan ==
    /\ net[1].hc
    /\ Seen("cancelRet") # {}
    /\ Seen("stopRet") # {}
    /\ Completes = 1

\* C10: after a call of Next has returned false, Periodic never calls Next on
\* that observer again.
C10_NoNextAfterFalse ==
    \A j \in Seen("next") : \A k \in Seen("next") : (j < k) => trace[j].ok

\* the sources of Merge node m whose Complete callback has been called
\* before position k of the trace
CompletedSources(m, k) ==
    {trace[j].val : j \in {x \in Seen("srcComplete") : x < k /\ trace[x].who = m}}

\* C3: the downstream Complete of a Merge is delivered at most once, and only
\* when every one of its sources has delivered its own Complete.
C3_MergeCompletesOnceAfterAll ==
    /\ Completes <= 1
    /\ \A k \in Seen("complete") :
         CompletedSources(2, k) = {net[2].srcs[j] : j \in DOMAIN net[2].srcs}

\* the calls of the terminal observer's Next
Nexts == Cardinality(Seen("next"))

\* C4: for n >= 1, one activation of Take(n) calls the downstream Next at most
\* n times, whatever the upstream is.
C4_TakeForwardsAtMostN ==
    (Kind(2) = "Take" /\ net[2].n >= 1) => Nexts <= net[2].n

\* C5: From(S) piped through Take(0) calls the downstream Next zero times, and
\* Take(0) answers false to the first value it receives.
C5_TakeZeroForwardsNothing ==
    (Kind(2) = "Take" /\ net[2].n = 0 /\ Kind(3) = "From") =>
        /\ Nexts = 0
        /\ \A k \in Seen("takeRet") : ~trace[k].ok

\* the inner stream a Flatten activated last before position k of the trace
LastActivated(k) ==
    LET A == {j \in Seen("innerActivate") : j < k}
    IN  trace[CHOOSE j \in A : \A x \in A : x <= j].val

\* C6: a Flatten has one active inner stream at most: once the outer source
\* has delivered a new inner stream and Flatten's call of the previous inner
\* Subscription has returned (the new stream is then activated), the previous
\* inner stream delivers no further value.
C6_OnlyTheLastInnerDelivers ==
    \A k \in Seen("innerNext") : trace[k].val = LastActivated(k)

\* no Complete callback is running
NoCompleteInFlight ==
    \A t \in DOMAIN stack : \A x \in DOMAIN stack[t] : stack[t][x].proc # "complete"

\* the outer source has completed and so has the inner stream activated last
BothCompleted ==
    /\ Seen("outerComplete") # {}
    /\ Seen("innerActivate") # {}
    /\ \E k \in Seen("innerComplete") : trace[k].val = LastActivated(Len(trace) + 1)

\* C7: with a Complete callback, once the outer source and the inner stream
\* activated last have both completed (in either order), the downstream
\* Complete has been delivered, exactly once.
C7_FlattenCompletesOnce ==
    (net[1].hc /\ BothCompleted /\ NoCompleteInFlight) => Completes = 1

\* the call of the push-function that returned at position r of the trace
CallOf(r) ==
    LET P == {c \in Seen("pushCall") : c < r /\ trace[c].who = trace[r].who}
    IN  CHOOSE c \in P : \A x \in P : x <= c

\* the calls of the observer's Next with the value pushed by call c
NextsOf(c) == {k \in Seen("next") : trace[k].val = trace[c].val}

Before(E, k) == \E j \in E : j < k

\* C8: a push that returns before the Accept stream is activated answers
\* false and calls no Next; a push made after the activation that returns
\* before the Subscription starts calls Next exactly once and answers what
\* Next answered; once a call of the Subscription has returned, no push calls
\* the observer's Next.
C8_PushFollowsRegistration ==
    /\ \A r \in Seen("pushRet") :
         ~Before(Seen("register"), r) => ~trace[r].ok /\ NextsOf(CallOf(r)) = {}
    /\ \A r \in Seen("pushRet") :
         (Before(Seen("register"), CallOf(r)) /\ ~Before(Seen("unregister"), r)) =>
             /\ Cardinality(NextsOf(CallOf(r))) = 1
             /\ \A k \in NextsOf(CallOf(r)) :
                  CallOf(r) < k /\ k < r /\ trace[k].ok = trace[r].ok
    /\ \A j \in Seen("cancelRet") : \A k \in Seen("pushNext") : k < j

\* what a call of a Subscription lets the observer and the resources see: a
\* Complete delivery, a Listener.Close call, an Accept completion callback
Effects == Seen("complete") \cup Seen("close") \cup Seen("completed")

\* C9: calling a Subscription a second or later time has no observable
\* effect: once a first call has returned, no further Complete is delivered
\* to the observer, Listener.Close is not called again and the completion
\* callback of Accept is not called again.
C9_SecondCallHasNoEffect ==
    \A j \in Seen("cancelRet") : \A k \in Effects : k < j

\* the Subscription has been invoked, or a call of Next has answered false
StopRequested ==
    \/ \E t \in Drivers : ops[t] > 0
    \/ \E k \in Seen("next") : ~trace[k].ok

\* the loop goroutine of the Periodic activation has returned
LoopExited == stack[LoopT(2)] = <<>>
TickerStopped == st[2].ticker = "stopped"

\* C11: under fair scheduling, once the Subscription of a Periodic activation
\* has been invoked or a call of Next has returned false, the loop goroutine
\* eventually returns and runs no further iteration, and the ticker is
\* stopped.
C11_LoopExitsForGood == StopRequested ~> [](LoopExited /\ TickerStopped)

\* the loop has delivered a value and has returned after a stop
C11_LoopHasExited ==
    /\ StopRequested
    /\ Seen("next") # {}
    /\ LoopExited
    /\ TickerStopped

\* the values a, f(a, v1), f(f(a, v1), v2), ... of the fold of S from a
RECURSIVE Folds(_, _, _)
Folds(fn, a, S) ==
    IF S = <<>> THEN <<a>> ELSE <<a>> \o Folds(fn, Fold(fn, a, Head(S)), Tail(S))

IsNext(e) == e.ev = "next"
\* the values the observer's Next has received, in order
NextVals == [k \in 1..Len(SelectSeq(trace, IsNext)) |-> SelectSeq(trace, IsNext)[k].val]
AllAccepted == \A k \in Seen("next") : trace[k].ok
\* the activation call has returned to the subscriber
Activated == sub # 0

\* C12: From(v1..vk) piped through Reduce(a, f) to an observer that always
\* answers true delivers a, f(a,v1), f(f(a,v1),v2), ... in this order, k+1
\* values in all once the activation has returned, and then Complete once.
C12_ReduceDeliversTheFolds ==
    (Kind(2) = "Reduce" /\ Kind(3) = "From" /\ AllAccepted) =>
        LET E == Folds(net[2].args[1], net[2].n, net[3].args) IN
        /\ Len(NextVals) <= Len(E)
        /\ NextVals = SubSeq(E, 1, Len(NextVals))
        /\ Completes <= 1
        /\ \A c \in Seen("complete") : Len(NextVals) = Len(E) /\ \A k \in Seen("next") : k < c
        /\ Activated => /\ NextVals = E
                        /\ net[1].hc => Completes = 1

\* a Reduce with a fold that depends on the order has folded a sequence of
\* two values or more and has completed
C12_FoldedAndCompleted ==
    /\ Kind(2) = "Reduce" /\ Kind(3) = "From"
    /\ net[2].args[1] = "sub"
    /\ Len(net[3].args) >= 2
    /\ AllAccepted
    /\ Activated
    /\ Len(NextVals) = Len(net[3].args) + 1
    /\ Completes = 1

\* the first value was rejected: the first call of Next answered false
FirstRejected == \E k \in Seen("next") : ~trace[k].ok /\ \A j \in Seen("next") : k <= j

\* C17: StartWith(v) and Reduce(a, f) deliver their first value before they
\* activate the source; if that call of Next answers false the source is
\* never activated, nothing more is delivered, and the Subscription returned
\* does nothing.
C17_RejectedFirstValueStopsAll ==
    (Kind(2) \in {"Reduce", "StartWith"}) =>
        /\ \A k \in DOMAIN trace :
             (trace[k].ev \notin {"next", "pushCall", "pushRet"}) =>
                 \E j \in Seen("next") : j < k /\ trace[j].val = net[2].n
        /\ FirstRejected =>
             /\ Seen("srcActivate") = {}
             /\ Cardinality(Seen("next")) = 1
             /\ \A k \in DOMAIN trace : trace[k].ev \in {"next", "cancelRet", "pushCall", "pushRet"}
             /\ \A n \in Nodes : Kind(n) \in {"Accept", "Listener"} => st[n] = NodeInit(net[n])
             /\ \A k \in Seen("pushRet") : ~trace[k].ok

\* the first value was rejected and the Subscription returned has been
\* called, after a push or an emit
C17_RejectedAndCancelled ==
    /\ Kind(2) \in {"Reduce", "StartWith"}
    /\ FirstRejected
    /\ Seen("cancelRet") # {}
    /\ ops[MainT] = FoldOps

\* the Subscription has been invoked once at most
InvokedOnce == Cardinality(Seen("unregister")) <= 1

\* C13: when the Subscription of an activated Accept stream is invoked once,
\* then before the call returns the registered observer is cleared, next the
\* observer's Complete is called once, next the completion callback (if not
\* nil) is called once; neither callback is called before the invocation.
C13_AcceptCancelOrder ==
    (Kind(2) = "Accept" /\ InvokedOnce) =>
        /\ Completes <= 1
        /\ Cardinality(Seen("completed")) <= 1
        /\ \A k \in Seen("complete") \cup Seen("completed") : Before(Seen("unregister"), k)
        /\ \A c \in Seen("complete") : \A d \in Seen("completed") : c < d
        /\ \A j \in Seen("cancelRet") :
             /\ st[2].obs = 0
             /\ Before(Seen("unregister"), j)
             /\ net[1].hc => Before(Seen("complete"), j)
             /\ net[2].hc => Before(Seen("completed"), j)

\* the one call of the Subscription has returned, with both callbacks set
C13_CancelledOnce ==
    /\ Kind(2) = "Accept" /\ InvokedOnce
    /\ net[1].hc /\ net[2].hc
    /\ Seen("cancelRet") # {}
    /\ Seen("pushNext") # {}
    /\ Completes = 1
    /\ Cardinality(Seen("completed")) = 1

\* every source of the Merge has called its Complete callback and every
\* such call has returned
AllSourcesCompleted ==
    /\ CompletedSources(2, Len(trace) + 1) = {net[2].srcs[j] : j \in DOMAIN net[2].srcs}
    /\ NoCompleteInFlight

\* C14: once every source of a Merge has delivered its Complete, on whatever
\* goroutine, the downstream Complete has been delivered: no completion is
\* lost by interleaved increments of the counter.
C14_NoCompletionLost ==
    (Kind(2) = "Merge" /\ net[1].hc /\ AllSourcesCompleted) => Completes >= 1

\* inner stream x was activated at position k of the trace at the latest and
\* since then its Subscription has been invoked or it has completed
Released(k) ==
    \E j \in Seen("innerUnsub") \cup Seen("innerComplete") :
        j > k /\ trace[j].val = trace[k].val

\* C15: once the call of the Subscription of a Flatten has returned, no inner
\* stream remains active: every inner stream activated so far has had its
\* Subscription invoked or has completed, and none is activated afterwards.
C15_CancelReleasesEveryInner ==
    (Kind(2) = "Flatten" /\ Seen("cancelRet") # {}) =>
        /\ \A k \in Seen("innerActivate") : Released(k)
        /\ \A k \in Seen("innerActivate") : \A j \in Seen("cancelRet") : k < j

\* C16: one activation of From(S) calls Next on the elements of S in order
\* and without duplication, delivers nothing after the first element whose
\* Next answers false, then calls Complete once (when the callback is set),
\* all before the activation returns; calling the Subscription changes
\* nothing.
C16_FromReplaysInOrder ==
    (Kind(2) = "From") =>
        /\ Len(NextVals) <= Len(net[2].args)
        /\ NextVals = SubSeq(net[2].args, 1, Len(NextVals))
        /\ \A j \in Seen("next") : \A k \in Seen("next") : (j < k) => trace[j].ok
        /\ Completes <= 1
        /\ \A c \in Seen("complete") : \A k \in Seen("next") : k < c
        /\ \A c \in Seen("complete") :
             AllAccepted => Len(NextVals) = Len(net[2].args)
        /\ Activated =>
             /\ AllAccepted => Len(NextVals) = Len(net[2].args)
             /\ Completes = (IF net[1].hc THEN 1 ELSE 0)
        /\ \A j \in Seen("cancelRet") :
             /\ \A k \in Seen("next") \cup Seen("complete") : k < j
             /\ st[2] = NodeInit(net[2])

\* From has stopped at a rejected element that is not the last one, has
\* completed, and its Subscription has been called
C16_StoppedEarlyAndCancelled ==
    /\ Kind(2) = "From"
    /\ ~AllAccepted
    /\ 1 < Len(NextVals) /\ Len(NextVals) < Len(net[2].args)
    /\ Completes = 1
    /\ Seen("cancelRet") # {}

\* C18: after a call of the downstream Next has answered false, a Flatten
\* calls the downstream Next no more, neither for the inner stream that was
\* active nor for one the outer source delivers later.
C18_FlattenStopsAfterFalse ==
    (Kind(2) = "Flatten") =>
        \A j \in Seen("next") : ~trace[j].ok => \A k \in Seen("next") : k <= j

\* activation a of the Accept stream has registered its observer, and the
\* Subscription it returned has started
RegisteredBy(a) == {k \in Seen("register") : trace[k].val = a}
UnregisteredBy(a) == {k \in Seen("unregister") : trace[k].val = a}

\* C19: when an Accept stream is activated by observer A and then by
\* observer B, B stays registered until the Subscription returned to B is
\* invoked: a push made after B's activation that returns before that
\* Subscription starts calls B's Next once, also when the Subscription
\* returned to A has been invoked in between.
C19_FirstCancelKeepsSecondObserver ==
    (Kind(ActivationB) = "Accept") =>
        \A r \in Seen("pushRet") :
            (Before(RegisteredBy(ActivationB), CallOf(r))
             /\ ~Before(UnregisteredBy(ActivationB), r)) =>
                Cardinality({k \in NextsOf(CallOf(r)) : trace[k].who = ObserverB}) = 1

\* C20: however a push interleaves with a call of the Subscription of an
\* activated Accept stream, the push either calls the observer's Next once
\* and answers what it answered, or answers false and calls nothing; it never
\* uses the observer reference once it has been cleared.
C20_PushNeverUsesClearedObserver ==
    (Kind(2) = "Accept" /\ Len(net) = 2) =>
        /\ Seen("panic") = {}
        /\ \A k \in Seen("pushNext") : ~Before(UnregisteredBy(2), k)
        /\ \A r \in Seen("pushRet") :
             \/ NextsOf(CallOf(r)) = {} /\ ~trace[r].ok
             \/ /\ Cardinality(NextsOf(CallOf(r))) = 1
                /\ \A k \in NextsOf(CallOf(r)) : trace[k].ok = trace[r].ok

====
